---- MODULE Spec2Model ----
(***************************************************************************)
(* Terrain synthesis engine of python-world-generator (src/terraingen.py): *)
(* the TerrainGenerator object, its constructor and the stages of          *)
(* generate(): elevation, rivers, moisture, biomes, serialization.         *)
(*                                                                         *)
(* Reals are fixed-point integers: the real r is the integer r * Unit.     *)
(* Python's Mersenne Twister is replaced by a small linear congruential    *)
(* generator, like the original a deterministic function of the seed and   *)
(* of the draws made so far; the permutation tables are the ones the       *)
(* seeded shuffle produces for the seeds explored.                         *)
(***************************************************************************)
EXTENDS Integers, Sequences, FiniteSets, TLC

VARIABLES
  args,       \* the constructor's arguments (width, height, seed, mode, ...)
  pc,         \* position of the caller: in the constructor, in a stage of generate()
  error,      \* the exception that ended the constructor or generate(), or "none"
  rng,        \* self.rng: the state of the instance's random generator
  tiles,      \* self.tiles: <<>> or the grid tiles[y][x]
  rivers,     \* self.rivers: sequence of River records
  selected,   \* selected_sources of the last _generate_rivers
  artifact,   \* the dictionary returned by the last generate(), or NoArtifact
  first,      \* what the first generate() of the behaviour returned and left
  traced,     \* the final loop state of each _trace_river_path call of the last
              \* _generate_rivers, in the order of the selected sources
  scenario,   \* how a synthetic grid was laid out, NoScenario for a generated one
  climate,    \* the locals water_distance and rain_shadow of each tile in the
              \* last _calculate_moisture, <<>> before the first one
  calls,      \* generate() calls started on the current instance
  runs        \* generate() calls started in the behaviour, over all instances

vars ==
  <<args, pc, error, rng, tiles, rivers, selected, artifact, first, traced,
    scenario, climate, calls, runs>>

(***************************************************************************)
(* Fixed point                                                             *)
(***************************************************************************)
Unit == 10 * 1000

Max(a, b) == IF a > b THEN a ELSE b
Min(a, b) == IF a < b THEN a ELSE b
Abs(a) == IF a < 0 THEN -a ELSE a

\* a * b and a / b on fixed-point operands
Mul(a, b) == (a * b) \div Unit

\* int(x): truncation toward zero, as a whole number
Trunc(x) == IF x >= 0 THEN x \div Unit ELSE -((-x) \div Unit)

RECURSIVE IsqrtFrom(_, _)
IsqrtFrom(n, r) ==
  LET r2 == (r + n \div r) \div 2
  IN IF r2 >= r THEN r ELSE IsqrtFrom(n, r2)

\* a power of two above the square root of n < 2^30
IsqrtStart(n) ==
  IF n < 16 THEN 4 ELSE IF n < 256 THEN 16 ELSE IF n < 4096 THEN 64
  ELSE IF n < 65536 THEN 256 ELSE IF n < 1048576 THEN 1024
  ELSE IF n < 16777216 THEN 4096 ELSE IF n < 268435456 THEN 16384 ELSE 32768

\* floor of the square root of a whole number n >= 0 (Newton's iteration)
Isqrt(n) == IF n < 2 THEN n ELSE IsqrtFrom(n, IsqrtStart(n))

\* (v ** 0.5) on a fixed-point operand
Sqrt(v) == Isqrt(v * Unit)

(***************************************************************************)
(* Program constants                                                       *)
(***************************************************************************)
MinSize == 50
Scale == 100
Lacunarity == 2
Persistence == Unit \div 2
WaterLevel == (4 * Unit) \div 10
SourceLevel == (7 * Unit) \div 10
MinRiverLength == 10
SearchRadius == 40
ProximityRange == 30
CheckDistance == 15
PermSize == 256

(***************************************************************************)
(* Bounds of the model                                                     *)
(***************************************************************************)
MaxRivers == 3
MaxRuns == 2

(***************************************************************************)
(* SimplexNoise                                                            *)
(***************************************************************************)
\* the seeds explored
Seeds == {1, 2, 4, 6}

\* list(range(256)) after random.Random(seed).shuffle, for each seed explored
ShuffledRange ==
  1 :> <<
     233, 254, 66, 183, 15, 211, 234, 222, 119, 187, 176, 159, 19, 134, 17,
     36, 193, 18, 225, 101, 180, 152, 40, 197, 92, 245, 80, 73, 118, 84,
     203, 186, 54, 188, 153, 202, 165, 158, 177, 71, 139, 227, 28, 89, 136,
     207, 121, 49, 249, 91, 157, 38, 13, 235, 238, 87, 217, 250, 12, 50,
     221, 123, 239, 39, 162, 82, 60, 63, 156, 105, 107, 83, 116, 67, 163,
     20, 21, 169, 37, 113, 96, 144, 198, 34, 31, 35, 132, 57, 214, 10, 9,
     86, 4, 32, 137, 149, 23, 230, 168, 160, 220, 29, 102, 191, 76, 143,
     42, 148, 147, 79, 69, 232, 229, 190, 240, 45, 104, 167, 172, 64, 170,
     189, 70, 212, 46, 111, 61, 14, 109, 52, 33, 98, 1, 226, 224, 90, 200,
     131, 253, 199, 215, 51, 3, 223, 181, 146, 43, 154, 78, 11, 244, 208,
     125, 94, 236, 133, 41, 27, 130, 204, 22, 95, 140, 93, 44, 192, 103,
     62, 122, 8, 174, 100, 179, 127, 150, 72, 77, 48, 171, 129, 210, 128,
     182, 85, 248, 75, 209, 161, 47, 25, 164, 142, 106, 218, 74, 117, 246,
     206, 173, 241, 88, 59, 141, 247, 112, 231, 56, 135, 219, 185, 108, 55,
     175, 242, 2, 138, 243, 6, 5, 237, 81, 26, 151, 58, 252, 184, 255, 114,
     178, 0, 196, 251, 155, 110, 99, 213, 228, 7, 124, 24, 53, 201, 97,
     166, 120, 115, 194, 126, 30, 65, 16, 195, 205, 216, 145, 68>> @@
  2 :> <<
     22, 244, 147, 238, 224, 199, 105, 181, 30, 96, 24, 166, 187, 67, 72,
     219, 253, 26, 196, 111, 25, 223, 229, 211, 137, 232, 38, 76, 247, 61,
     201, 98, 17, 228, 173, 109, 74, 37, 85, 55, 99, 82, 115, 138, 242,
     209, 190, 236, 193, 29, 210, 52, 123, 140, 170, 73, 112, 165, 121, 35,
     246, 1, 136, 195, 141, 84, 179, 18, 189, 65, 91, 50, 164, 227, 107,
     177, 13, 237, 11, 255, 212, 234, 153, 51, 33, 103, 160, 70, 57, 39,
     120, 184, 250, 36, 162, 80, 245, 180, 197, 4, 239, 126, 101, 231, 75,
     49, 0, 88, 66, 254, 94, 20, 154, 16, 32, 47, 146, 117, 149, 5, 176,
     241, 204, 10, 3, 86, 31, 248, 156, 191, 14, 8, 217, 158, 152, 62, 235,
     206, 133, 144, 58, 69, 12, 15, 27, 48, 2, 87, 19, 194, 178, 182, 53,
     161, 104, 150, 159, 132, 200, 129, 77, 79, 122, 225, 157, 215, 208,
     56, 168, 124, 175, 142, 145, 89, 186, 116, 169, 192, 202, 226, 127,
     71, 125, 63, 135, 167, 118, 183, 102, 41, 198, 203, 90, 151, 221, 216,
     249, 106, 114, 46, 214, 172, 131, 252, 233, 230, 34, 44, 83, 251, 6,
     59, 60, 45, 143, 42, 134, 108, 97, 81, 119, 93, 7, 222, 240, 68, 128,
     113, 139, 95, 130, 220, 185, 205, 100, 163, 110, 40, 174, 148, 9, 243,
     54, 155, 64, 78, 218, 171, 207, 188, 43, 213, 92, 21, 23, 28>> @@
  4 :> <<
     248, 196, 72, 197, 126, 35, 209, 214, 163, 185, 116, 202, 0, 43, 40,
     90, 65, 222, 119, 143, 34, 68, 232, 97, 191, 147, 8, 29, 38, 166, 81,
     237, 57, 167, 240, 18, 98, 157, 124, 159, 235, 93, 85, 151, 2, 178,
     88, 80, 156, 128, 36, 109, 3, 250, 9, 16, 55, 104, 103, 208, 13, 33,
     96, 64, 125, 183, 194, 24, 205, 230, 176, 89, 252, 53, 28, 172, 141,
     138, 107, 30, 134, 61, 154, 52, 188, 229, 190, 236, 186, 148, 127, 62,
     221, 144, 254, 131, 231, 123, 215, 94, 251, 225, 7, 14, 106, 228, 253,
     238, 12, 173, 210, 114, 245, 100, 179, 201, 152, 246, 46, 233, 135,
     219, 181, 200, 48, 32, 169, 145, 113, 193, 75, 19, 168, 249, 175, 139,
     226, 4, 83, 189, 21, 174, 10, 227, 117, 198, 224, 84, 31, 60, 149,
     177, 58, 239, 25, 158, 170, 142, 82, 150, 111, 91, 47, 243, 112, 161,
     162, 51, 192, 247, 50, 37, 87, 255, 165, 136, 132, 203, 216, 118, 182,
     20, 11, 223, 78, 59, 41, 115, 110, 73, 153, 108, 105, 220, 130, 218,
     180, 146, 217, 1, 76, 244, 213, 71, 121, 207, 45, 63, 129, 99, 171,
     86, 155, 22, 95, 187, 160, 242, 79, 42, 49, 69, 241, 66, 206, 164,
     212, 6, 54, 67, 27, 211, 44, 199, 70, 92, 137, 133, 56, 15, 195, 204,
     74, 234, 140, 102, 5, 17, 23, 39, 122, 101, 184, 26, 77, 120>> @@
  6 :> <<
     130, 115, 1, 191, 56, 233, 44, 10, 16, 127, 198, 94, 227, 107, 28,
     185, 26, 103, 86, 218, 8, 226, 25, 240, 82, 159, 54, 211, 118, 73, 76,
     192, 171, 88, 190, 36, 65, 116, 219, 139, 38, 149, 119, 244, 45, 239,
     6, 222, 177, 170, 31, 33, 111, 55, 80, 196, 27, 72, 89, 17, 251, 12,
     58, 70, 90, 182, 143, 14, 158, 213, 234, 106, 250, 71, 249, 83, 93,
     166, 40, 98, 230, 202, 253, 20, 145, 181, 255, 59, 242, 39, 63, 157,
     18, 148, 61, 84, 60, 129, 164, 121, 161, 160, 52, 153, 252, 42, 122,
     208, 207, 126, 46, 102, 75, 146, 15, 168, 117, 2, 232, 100, 184, 231,
     163, 34, 87, 151, 140, 21, 210, 180, 246, 109, 132, 19, 189, 136, 114,
     176, 183, 112, 199, 101, 215, 47, 13, 238, 32, 200, 99, 135, 96, 243,
     78, 142, 214, 4, 43, 48, 3, 133, 53, 152, 35, 57, 123, 97, 172, 79,
     68, 221, 155, 29, 203, 134, 173, 187, 217, 30, 241, 91, 77, 110, 154,
     62, 245, 201, 7, 128, 178, 165, 147, 131, 228, 254, 212, 167, 51, 247,
     11, 220, 74, 162, 209, 236, 193, 229, 225, 113, 64, 224, 104, 204, 92,
     23, 85, 108, 216, 22, 175, 156, 237, 248, 67, 235, 206, 179, 141, 144,
     49, 24, 174, 138, 137, 105, 223, 186, 50, 205, 125, 69, 5, 197, 81,
     95, 188, 194, 120, 150, 169, 37, 0, 9, 66, 195, 124, 41>>

\* self.perm[i] for i in 0..511: the shuffled range, duplicated
perm(sd, i) == ShuffledRange[sd][(i % PermSize) + 1]

_fade(t) ==
  LET t3 == Mul(Mul(t, t), t)
  IN Mul(t3, Mul(t, 6 * t - 15 * Unit) + 10 * Unit)

_lerp(a, b, t) == a + Mul(t, b - a)

_grad(hash_val, x, y) ==
  LET h == hash_val % 4
      u == IF h < 2 THEN x ELSE y
      v == IF h < 2 THEN y ELSE x
  IN (IF h % 2 = 0 THEN u ELSE -u) + (IF (h \div 2) % 2 = 0 THEN v ELSE -v)

\* the lattice cell and the fractional offsets of a coordinate
LatticeCell(x) == Trunc(x) % PermSize
Fraction(x) == x - Unit * Trunc(x)

noise2d(sd, x, y) ==
  LET xi == LatticeCell(x)
      yi == LatticeCell(y)
      xf == Fraction(x)
      yf == Fraction(y)
      u == _fade(xf)
      v == _fade(yf)
      aa == perm(sd, perm(sd, xi) + yi)
      ab == perm(sd, perm(sd, xi) + yi + 1)
      ba == perm(sd, perm(sd, xi + 1) + yi)
      bb == perm(sd, perm(sd, xi + 1) + yi + 1)
      x1 == _lerp(_grad(aa, xf, yf), _grad(ba, xf - Unit, yf), u)
      x2 == _lerp(_grad(ab, xf, yf - Unit), _grad(bb, xf - Unit, yf - Unit), u)
  IN _lerp(x1, x2, v)

(***************************************************************************)
(* random.Random                                                           *)
(***************************************************************************)
RngModulus == 65536 + 1

\* random.Random(seed)
RngSeed(sd) == (sd * 7919 + 1) % RngModulus

\* the generator's state after one more draw
RngStep(s) == (s * 75 + 74) % RngModulus

\* the value of the draw that leaves the generator in state s: random() in
\* [0, 1), and randbelow(n) in 0..n-1
RngReal(s) == (s * Unit) \div RngModulus
RngBelow(s, n) == (s * n) \div RngModulus

(***************************************************************************)
(* Tiles and constructor arguments                                         *)
(***************************************************************************)
Modes == {"continent", "archipelago", "highlands", "none", "plains"}
Winds == {"west", "east", "north", "south", "calm"}

\* the placeholder None of a grid position not yet written
NoneTile ==
  [x |-> -1, y |-> -1, elevation |-> 0, moisture |-> 0, biome |-> "None",
   water |-> FALSE, river |-> FALSE]

Tile(x, y, elevation) ==
  [x |-> x, y |-> y, elevation |-> elevation, moisture |-> 0, biome |-> "",
   water |-> elevation < WaterLevel, river |-> FALSE]

NoArtifact == [schema |-> "none"]

Xs(a) == 0 .. a.width - 1
Ys(a) == 0 .. a.height - 1

(***************************************************************************)
(* TerrainGenerator._apply_mode_shaping                                    *)
(***************************************************************************)
\* the loop over the island centers: each draws island_x, then island_y
RECURSIVE IslandInfluence(_, _, _, _, _, _)
IslandInfluence(a, x, y, left, max_influence, s) ==
  IF left = 0 THEN <<max_influence, s>>
  ELSE LET s1 == RngStep(s)
           s2 == RngStep(s1)
           island_x == RngReal(s1) * a.width
           island_y == RngReal(s2) * a.height
           dx == (x * Unit - island_x) \div a.width
           dy == (y * Unit - island_y) \div a.height
           distance == Sqrt(Mul(dx, dx) + Mul(dy, dy))
           influence == Max(0, Unit - distance * 3)
       IN IslandInfluence(a, x, y, left - 1, Max(max_influence, influence), s2)

ContinentShape(a, x, y, elevation) ==
  LET dx == ((x * Unit - (a.width * Unit) \div 2) * 10) \div (a.width * 8)
      dy == ((y * Unit - (a.height * Unit) \div 2) * 10) \div (a.height * 8)
      distance2 == Mul(dx, dx) + Mul(dy, dy)      \* distance * distance
      falloff == Max(0, Unit - (distance2 * 8) \div 10)
  IN (elevation * 3) \div 10 + (Mul(elevation, falloff) * 7) \div 10

\* a highlands shaping without its elevated base
HighlandsShapeNoBase(elevation) == elevation \div 2

HighlandsShape(elevation) == Unit \div 2 + elevation \div 2

\* <<shaped elevation, generator state afterwards>>
_apply_mode_shaping(a, x, y, elevation, s) ==
  IF a.mode = "continent" THEN <<ContinentShape(a, x, y, elevation), s>>
  ELSE IF a.mode = "archipelago" THEN
    LET s1 == RngStep(s)
        island_count == 5 + RngBelow(s1, 4)
        r == IslandInfluence(a, x, y, island_count, 0, s1)
    IN <<Mul(elevation, r[1]), r[2]>>
  ELSE IF a.mode = "highlands" THEN <<HighlandsShape(elevation), s>>
  ELSE <<elevation, s>>

(***************************************************************************)
(* TerrainGenerator._generate_elevation                                    *)
(***************************************************************************)
\* the octave loop: <<elevation, max_value>>
RECURSIVE OctaveSum(_, _, _, _, _, _, _, _)
OctaveSum(sd, x, y, left, amplitude, frequency, elevation, max_value) ==
  IF left = 0 THEN <<elevation, max_value>>
  ELSE LET sample_x == (x * frequency) \div Scale
           sample_y == (y * frequency) \div Scale
           noise_val == noise2d(sd, sample_x, sample_y)
       IN OctaveSum(sd, x, y, left - 1, Mul(amplitude, Persistence),
                    frequency * Lacunarity,
                    elevation + Mul(noise_val, amplitude), max_value + amplitude)

\* max_value after the octave loop; the division by it raises when it is 0
MaxValue(a) == OctaveSum(a.seed, 0, 0, a.octaves, Unit, Unit, 0, 0)[2]

\* <<warp_sample_x, warp_sample_y>>
WarpSample(a, x, y) ==
  LET warp_x == x * Unit + noise2d(a.seed, x * 300, y * 300) * 10
      warp_y == y * Unit
                + noise2d(a.seed, x * 300 + 100 * Unit, y * 300 + 100 * Unit) * 10
  IN <<warp_x \div Scale, warp_y \div Scale>>

\* the normalised octave sum blended with the domain-warped sample
BlendedElevation(a, x, y) ==
  LET o == OctaveSum(a.seed, x, y, a.octaves, Unit, Unit, 0, 0)
      elevation == ((o[1] * Unit) \div o[2] + Unit) \div 2
      warp_sample == WarpSample(a, x, y)
      warp_noise == noise2d(a.seed, warp_sample[1], warp_sample[2])
  IN (elevation * 6) \div 10 + (((warp_noise + Unit) \div 2) * 4) \div 10

\* the post-multiply of a shaped elevation
Boost(a, elevation) == IF a.mode # "none" THEN (elevation * 15) \div 10 ELSE elevation

\* a clamp that only keeps values from falling below zero
ClampBelowOnly(v) == Max(0, v)

Clamp(v) == Max(0, Min(Unit, v))

\* one tile of the loop: <<stored elevation, generator state afterwards>>
TileElevation(a, x, y, s) ==
  LET shaped == _apply_mode_shaping(a, x, y, BlendedElevation(a, x, y), s)
  IN <<Clamp(Boost(a, shaped[1])), shaped[2]>>

\* e, once v has been evaluated: TLC evaluates an operator's arguments on
\* demand, and a state handed from one iteration of a loop to the next is
\* evaluated at each iteration, as the program does, instead of as one nested
\* expression at the end
Then(v, e) == IF v = v THEN e ELSE e

\* the loops over y and x, for the tiles at positions lo .. hi - 1 of the scan
\* (position i is x = i % width, y = i \div width), entered with generator state
\* s: <<their elevations, generator state afterwards>>. The range is halved
\* instead of walked, which keeps the evaluation shallow.
RECURSIVE ElevationScan(_, _, _, _)
ElevationScan(a, lo, hi, s) ==
  IF hi - lo = 1
  THEN LET t == TileElevation(a, lo % a.width, lo \div a.width, s)
       IN <<<<t[1]>>, t[2]>>
  ELSE LET mid == (lo + hi) \div 2
           head == ElevationScan(a, lo, mid, s)
           tail == ElevationScan(a, mid, hi, head[2])
       IN Then(head, <<head[1] \o tail[1], tail[2]>>)

NoneGrid(a) == [y \in Ys(a) |-> [x \in Xs(a) |-> NoneTile]]

\* _generate_elevation with generator state s: the exception raised and the
\* instance's fields afterwards
_generate_elevation(a, s) ==
  LET r == ElevationScan(a, 0, a.width * a.height, s)
  IN IF MaxValue(a) = 0
     THEN [error |-> "ZeroDivisionError", tiles |-> NoneGrid(a), rng |-> s]
     ELSE [error |-> "none",
           tiles |-> [y \in Ys(a) |-> [x \in Xs(a) |->
                        Tile(x, y, r[1][y * a.width + x + 1])]],
           rng |-> r[2]]

(***************************************************************************)
(* TerrainGenerator._generate_rivers, _trace_river_path, _get_neighbors    *)
(***************************************************************************)
Range(f) == {f[i] : i \in DOMAIN f}

NeighborOffsets == <<<<0, 1>>, <<1, 0>>, <<0, -1>>, <<-1, 0>>>>

InGrid(a, x, y) == 0 <= x /\ x < a.width /\ 0 <= y /\ y < a.height

_get_neighbors(a, x, y) ==
  LET all == [i \in 1..4 |-> <<x + NeighborOffsets[i][1], y + NeighborOffsets[i][2]>>]
  IN SelectSeq(all, LAMBDA n : InGrid(a, n[1], n[2]))

\* a comparison that lets a higher elevation replace the lowest
Higher(neighbor_elevation, lowest_elevation) ==
  neighbor_elevation > lowest_elevation

\* a comparison that also lets an equal elevation replace the lowest
LowerOrEqual(neighbor_elevation, lowest_elevation) ==
  neighbor_elevation <= lowest_elevation

\* whether the scan replaces its lowest neighbour by one of this elevation
Lower(neighbor_elevation, lowest_elevation) == neighbor_elevation < lowest_elevation

\* a scan that takes the lowest neighbour whatever it is, visited or not,
\* below the current tile or not
LowestNeighborOfAll(t, neighbors, i, visited, lowest, lowest_elevation) ==
  LET least == {k \in i .. Len(neighbors) :
                  \A j \in i .. Len(neighbors) :
                    t[neighbors[k][2]][neighbors[k][1]].elevation
                      <= t[neighbors[j][2]][neighbors[j][1]].elevation}
  IN IF least = {} THEN lowest
     ELSE neighbors[CHOOSE k \in least : \A j \in least : k <= j]

\* a scan that settles for the first unvisited neighbour below the current tile
LowestNeighborFirstLower(t, neighbors, i, visited, lowest, lowest_elevation) ==
  LET below == {k \in i .. Len(neighbors) :
                  /\ neighbors[k] \notin visited
                  /\ t[neighbors[k][2]][neighbors[k][1]].elevation < lowest_elevation}
  IN IF below = {} THEN lowest
     ELSE neighbors[CHOOSE k \in below : \A j \in below : k <= j]

\* the scan of the neighbours from position i on: the lowest found, <<>> for None
RECURSIVE LowestNeighbor(_, _, _, _, _, _)
LowestNeighbor(t, neighbors, i, visited, lowest, lowest_elevation) ==
  IF i > Len(neighbors) THEN lowest
  ELSE LET n == neighbors[i]
           e == t[n[2]][n[1]].elevation
       IN IF n \in visited THEN
            LowestNeighbor(t, neighbors, i + 1, visited, lowest, lowest_elevation)
          ELSE IF Lower(e, lowest_elevation) THEN
            LowestNeighbor(t, neighbors, i + 1, visited, n, e)
          ELSE LowestNeighbor(t, neighbors, i + 1, visited, lowest, lowest_elevation)

\* an iteration that also ends the trace on a tile already marked as river
TraceStepJoinsRiver(t, a, st) ==
  LET current_tile == t[st.current[2]][st.current[1]]
      lowest == LowestNeighbor(t, _get_neighbors(a, st.current[1], st.current[2]), 1,
                               st.visited, <<>>, current_tile.elevation)
  IN IF current_tile.water \/ current_tile.river
     THEN [st EXCEPT !.done = TRUE, !.iterations = @ + 1]
     ELSE IF lowest = <<>>
     THEN [st EXCEPT !.done = TRUE, !.iterations = @ + 1]
     ELSE [path |-> Append(st.path, lowest), visited |-> st.visited \cup {lowest},
           current |-> lowest, done |-> FALSE, iterations |-> st.iterations + 1]

\* an iteration that flows on through water
TraceStepThroughWater(t, a, st) ==
  LET current_tile == t[st.current[2]][st.current[1]]
      lowest == LowestNeighbor(t, _get_neighbors(a, st.current[1], st.current[2]), 1,
                               st.visited, <<>>, current_tile.elevation)
  IN IF lowest = <<>>
     THEN [st EXCEPT !.done = TRUE, !.iterations = @ + 1]
     ELSE [path |-> Append(st.path, lowest), visited |-> st.visited \cup {lowest},
           current |-> lowest, done |-> FALSE, iterations |-> st.iterations + 1]

\* one iteration of the while loop of _trace_river_path, from the loop's state
\* st = [path, visited, current, done, iterations]; done is set by a break
TraceStep(t, a, st) ==
  LET current_tile == t[st.current[2]][st.current[1]]
      lowest == LowestNeighbor(t, _get_neighbors(a, st.current[1], st.current[2]), 1,
                               st.visited, <<>>, current_tile.elevation)
  IN IF current_tile.water
     THEN [st EXCEPT !.done = TRUE, !.iterations = @ + 1]
     ELSE IF lowest = <<>>
     THEN [st EXCEPT !.done = TRUE, !.iterations = @ + 1]
     ELSE [path |-> Append(st.path, lowest), visited |-> st.visited \cup {lowest},
           current |-> lowest, done |-> FALSE, iterations |-> st.iterations + 1]

\* the loop's state after at most n more iterations. The count is halved
\* instead of walked, which keeps the evaluation shallow.
RECURSIVE TraceLoop(_, _, _, _)
TraceLoop(t, a, st, n) ==
  IF st.done \/ n = 0 THEN st
  ELSE IF n = 1 THEN TraceStep(t, a, st)
  ELSE LET half == TraceLoop(t, a, st, n \div 2)
       IN Then(half, TraceLoop(t, a, half, n - n \div 2))

\* a cap of half a row of tiles
MaxIterationsHalfRow(a) == a.width \div 2

\* a cap of one row of tiles
MaxIterationsOneRow(a) == a.width

\* max_iterations
MaxIterations(a) == a.width * a.height

\* the loop's state when _trace_river_path returns
TraceEnd(t, a, start_x, start_y) ==
  TraceLoop(t, a,
            [path |-> <<<<start_x, start_y>>>>, visited |-> {<<start_x, start_y>>},
             current |-> <<start_x, start_y>>, done |-> FALSE, iterations |-> 0],
            MaxIterations(a))

_trace_river_path(t, a, start_x, start_y) == TraceEnd(t, a, start_x, start_y).path

\* the sources list, in the order of the scan (y outer, x inner)
Sources(t, a) ==
  LET all == [i \in 1 .. a.width * a.height |->
                <<(i - 1) % a.width, (i - 1) \div a.width>>]
  IN SelectSeq(all, LAMBDA c : /\ t[c[2]][c[1]].elevation > SourceLevel
                               /\ ~t[c[2]][c[1]].water)

\* a count one above the requested one when the sources allow it
ActualRiverCountOneMore(n, river_count) ==
  IF n < river_count THEN n ELSE river_count + 1

\* a count that is the requested one, whatever the number of sources
ActualRiverCountRequested(n, river_count) == river_count

\* how many sources are asked of the sample
ActualRiverCount(n, river_count) == IF n < river_count THEN n ELSE river_count

\* rng.sample: k draws without replacement from a pool of n
RECURSIVE SampleLoop(_, _, _, _, _)
SampleLoop(pool, n, left, s, acc) ==
  IF left = 0 THEN <<acc, s>>
  ELSE LET s1 == RngStep(s)
           j == RngBelow(s1, n) + 1
       IN SampleLoop([pool EXCEPT ![j] = pool[n]], n - 1, left - 1, s1,
                     Append(acc, pool[j]))

\* whether rng.sample(population, k) raises ValueError
SampleRaises(n, k) == k < 0 \/ k > n

\* a rule that keeps a path of MinRiverLength tiles too
KeepFromTen(path) == Len(path) >= MinRiverLength

\* whether a traced path is kept as a river
Keep(path) == Len(path) > MinRiverLength

River(idx, path) ==
  [id |-> idx, source |-> path[1], mouth |-> path[Len(path)], path |-> path,
   length |-> Len(path)]

\* a marking that also soaks the tiles of the path
MarkRiverWet(t, a, path) ==
  LET on == Range(path)
  IN [y \in Ys(a) |-> [x \in Xs(a) |->
        IF <<x, y>> \in on
        THEN [t[y][x] EXCEPT !.river = TRUE, !.moisture = Unit] ELSE t[y][x]]]

\* a marking that also floods the tiles of the path
MarkRiverAsWater(t, a, path) ==
  LET on == Range(path)
  IN [y \in Ys(a) |-> [x \in Xs(a) |->
        IF <<x, y>> \in on
        THEN [t[y][x] EXCEPT !.river = TRUE, !.water = TRUE] ELSE t[y][x]]]

MarkRiver(t, a, path) ==
  LET on == Range(path)
  IN [y \in Ys(a) |-> [x \in Xs(a) |->
        IF <<x, y>> \in on THEN [t[y][x] EXCEPT !.river = TRUE] ELSE t[y][x]]]

\* the loop over the selected sources from position i on:
\* <<tiles, rivers, final loop states of the traces>>
RECURSIVE RiverLoop(_, _, _, _, _, _)
RiverLoop(t, a, sel, i, rv, tr) ==
  IF i > Len(sel) THEN <<t, rv, tr>>
  ELSE LET end == TraceEnd(t, a, sel[i][1], sel[i][2])
           path == end.path
       IN IF Keep(path)
          THEN RiverLoop(MarkRiver(t, a, path), a, sel, i + 1,
                         Append(rv, River(i - 1, path)), Append(tr, end))
          ELSE RiverLoop(t, a, sel, i + 1, rv, Append(tr, end))

\* _generate_rivers on tiles t, river list rv and generator state s: the
\* exception raised and the instance's fields afterwards
_generate_rivers(t, a, rv, s) ==
  LET sources == Sources(t, a)
      actual_river_count == ActualRiverCount(Len(sources), a.river_count)
      smp == SampleLoop(sources, Len(sources), actual_river_count, s, <<>>)
      r == RiverLoop(t, a, smp[1], 1, rv, <<>>)
  IN IF SampleRaises(Len(sources), actual_river_count)
     THEN [error |-> "ValueError", tiles |-> t, rivers |-> rv, rng |-> s,
           selected |-> <<>>, traced |-> <<>>]
     ELSE [error |-> "none", tiles |-> r[1], rivers |-> r[2], rng |-> smp[2],
           selected |-> smp[1], traced |-> r[3]]

(***************************************************************************)
(* TerrainGenerator._calculate_moisture, _distance_to_water,               *)
(* _calculate_rain_shadow                                                  *)
(***************************************************************************)
\* a test that takes water tiles only
WetWaterOnly(t, x, y) == t[y][x].water

Wet(t, x, y) == t[y][x].water \/ t[y][x].river

\* float('inf')
Infinity == 4 * SearchRadius

MinOf(S) == CHOOSE m \in S : \A n \in S : m <= n

\* an inner loop that looks half as far to either side
RowDistanceNarrow(t, a, x, row) ==
  LET hits == {Abs(dx) : dx \in {d \in -(SearchRadius \div 2) .. SearchRadius \div 2 :
                                   InGrid(a, x + d, row) /\ Wet(t, x + d, row)}}
  IN IF hits = {} THEN Infinity ELSE MinOf(hits)

\* the inner loop of the scan, for the row y + dy = row: the least |dx| of a wet
\* in-grid tile of that row with |dx| <= search_radius, or Infinity
RowDistance(t, a, x, row) ==
  LET hits == {Abs(dx) : dx \in {d \in -SearchRadius .. SearchRadius :
                                   InGrid(a, x + d, row) /\ Wet(t, x + d, row)}}
  IN IF hits = {} THEN Infinity ELSE MinOf(hits)

\* RowDistance of every tile, once per scan of the grid
RowDistances(t, a) == [y \in Ys(a) |-> [x \in Xs(a) |-> RowDistance(t, a, x, y)]]

\* the outer loop of the scan: min_distance over the rows of the window, given
\* the rows' own minima rd
_distance_to_water(rd, a, x, y) ==
  LET cand == {Abs(dy) + rd[y + dy][x] :
                 dy \in {d \in -SearchRadius .. SearchRadius : InGrid(a, x, y + d)}}
      min_distance == MinOf(cand)
  IN IF min_distance < Infinity THEN min_distance ELSE SearchRadius

\* max(0, 1 - water_distance / 30)
WaterMoisture(water_distance) ==
  Max(0, Unit - (water_distance * Unit) \div ProximityRange)

WindOffset(wind) ==
  IF wind = "east" THEN <<1, 0>>
  ELSE IF wind = "north" THEN <<0, -1>>
  ELSE IF wind = "south" THEN <<0, 1>>
  ELSE <<-1, 0>>

\* range(1, check_distance)
ShadowSteps == 1 .. CheckDistance - 1

Blocking(elevation) == (elevation - SourceLevel) \div 2

_calculate_rain_shadow(t, a, x, y) ==
  LET d == WindOffset(a.prevailing_wind)
      blocking == {Blocking(t[y + d[2] * i][x + d[1] * i].elevation) :
                     i \in {k \in ShadowSteps :
                              /\ InGrid(a, x + d[1] * k, y + d[2] * k)
                              /\ t[y + d[2] * k][x + d[1] * k].elevation > SourceLevel}}
  IN IF blocking = {} THEN 0 ELSE CHOOSE m \in blocking : \A b \in blocking : m >= b

\* water_distance and rain_shadow as _calculate_moisture computes them for
\* each tile
MoistureLocals(t, rd, a) ==
  [y \in Ys(a) |-> [x \in Xs(a) |->
     [water_distance |-> _distance_to_water(rd, a, x, y),
      rain_shadow |-> _calculate_rain_shadow(t, a, x, y)]]]

\* a moisture added to the one the tile already has
TileMoistureAdded(t, local, x, y) ==
  LET water_moisture == WaterMoisture(local.water_distance)
      elevation_moisture == (t[y][x].elevation * 3) \div 10
      rain_shadow == local.rain_shadow
  IN Clamp(t[y][x].moisture + water_moisture + elevation_moisture - rain_shadow)

\* the three terms combined and clamped, given the tile's water_distance and
\* rain_shadow
TileMoisture(t, local, x, y) ==
  LET water_moisture == WaterMoisture(local.water_distance)
      elevation_moisture == (t[y][x].elevation * 3) \div 10
      rain_shadow == local.rain_shadow
  IN Clamp(water_moisture + elevation_moisture - rain_shadow)

\* the loops over y and x, given the locals loc of every tile
_calculate_moisture(t, loc, a) ==
  [y \in Ys(a) |-> [x \in Xs(a) |->
     [t[y][x] EXCEPT !.moisture = TileMoisture(t, loc[y][x], x, y)]]]

(***************************************************************************)
(* TerrainGenerator._assign_biomes, _load_biome_rules, _determine_biome    *)
(***************************************************************************)
Tenths(n) == (n * Unit) \div 10
Hundredths(n) == (n * Unit) \div 100

FullRange == <<0, Unit>>

_load_biome_rules ==
  [deep_ocean |-> [elevation |-> <<0, Tenths(3)>>, moisture |-> FullRange],
   ocean |-> [elevation |-> <<Tenths(3), Hundredths(38)>>, moisture |-> FullRange],
   beach |-> [elevation |-> <<Hundredths(38), Hundredths(42)>>, moisture |-> FullRange],
   desert |-> [elevation |-> <<Hundredths(42), Tenths(7)>>,
               moisture |-> <<0, Hundredths(25)>>],
   grassland |-> [elevation |-> <<Hundredths(42), Tenths(7)>>,
                  moisture |-> <<Hundredths(25), Tenths(6)>>],
   temperate_forest |-> [elevation |-> <<Hundredths(42), Tenths(7)>>,
                         moisture |-> <<Tenths(6), Unit>>],
   wetlands |-> [elevation |-> <<Hundredths(42), Tenths(5)>>,
                 moisture |-> <<Tenths(7), Unit>>],
   highland |-> [elevation |-> <<Tenths(7), Hundredths(78)>>, moisture |-> FullRange],
   mountain |-> [elevation |-> <<Hundredths(78), Unit>>, moisture |-> FullRange]]

\* an order that tries the forest before the wetlands
priorityForestFirst ==
  <<"deep_ocean", "ocean", "beach", "mountain", "highland", "temperate_forest",
    "wetlands", "grassland", "desert">>

priority ==
  <<"deep_ocean", "ocean", "beach", "mountain", "highland", "wetlands",
    "temperate_forest", "grassland", "desert">>

\* a test with the elevation range closed at its upper end
RuleMatchesClosed(rule, elevation, moisture) ==
  /\ rule.elevation[1] <= elevation /\ elevation <= rule.elevation[2]
  /\ rule.moisture[1] <= moisture /\ moisture <= rule.moisture[2]

RuleMatches(rule, elevation, moisture) ==
  /\ rule.elevation[1] <= elevation /\ elevation < rule.elevation[2]
  /\ rule.moisture[1] <= moisture /\ moisture <= rule.moisture[2]

_determine_biome(elevation, moisture, rules) ==
  LET hits == {i \in 1 .. Len(priority) :
                 RuleMatches(rules[priority[i]], elevation, moisture)}
  IN IF hits = {} THEN "grassland" ELSE priority[MinOf(hits)]

_assign_biomes(t, a) ==
  [y \in Ys(a) |-> [x \in Xs(a) |->
     [t[y][x] EXCEPT
        !.biome = _determine_biome(t[y][x].elevation, t[y][x].moisture,
                                   _load_biome_rules)]]]

(***************************************************************************)
(* TerrainGenerator._identify_features, _to_dict                           *)
(***************************************************************************)
\* round(v, 3), in thousandths: to the nearest, a tie to the even neighbour
Round3(v) ==
  LET q == v \div 10
      r == v % 10
  IN IF r > 5 \/ (r = 5 /\ q % 2 = 1) THEN q + 1 ELSE q

_identify_features == [mountain_ranges |-> <<>>, lakes |-> <<>>]

TileEntry(tile) ==
  [x |-> tile.x, y |-> tile.y, elevation |-> Round3(tile.elevation),
   moisture |-> Round3(tile.moisture), biome |-> tile.biome,
   water |-> tile.water, river |-> tile.river]

RiverEntry(river) ==
  [id |-> river.id, source |-> river.source, mouth |-> river.mouth,
   length |-> river.length]

_to_dict(t, rv, a, features) ==
  [schema |-> "terrain.v1", seed |-> a.seed, width |-> a.width,
   height |-> a.height, mode |-> a.mode,
   generation_params |->
     [octaves |-> a.octaves, persistence |-> Persistence,
      lacunarity |-> Lacunarity, scale |-> Scale,
      river_count |-> a.river_count, prevailing_wind |-> a.prevailing_wind],
   tiles |-> [i \in 1 .. a.width * a.height |->
                TileEntry(t[(i - 1) \div a.width][(i - 1) % a.width])],
   rivers |-> [i \in 1 .. Len(rv) |-> RiverEntry(rv[i])],
   features |-> features]

(***************************************************************************)
(* Constructor arguments explored                                          *)
(***************************************************************************)
Cfg(w, h, sd, m, o, n, wind) ==
  [width |-> w, height |-> h, seed |-> sd, mode |-> m, octaves |-> o,
   river_count |-> n, prevailing_wind |-> wind]

Default == Cfg(MinSize, MinSize, 1, "continent", 2, 2, "west")

\* the default arguments with the size, the mode or the river count varied, and
\* four more seeds, each with another wind: seed 2 has lakes that rivers reach,
\* seed 4 no tile above the source level, seed 6 a single one
Configs ==
  {[Default EXCEPT !.width = w, !.height = h] :
     w \in {MinSize - 1, MinSize}, h \in {MinSize - 1, MinSize, MinSize + 1}}
  \cup {[Default EXCEPT !.mode = m] : m \in Modes}
  \cup {[Default EXCEPT !.river_count = n] : n \in -1 .. MaxRivers}
  \cup {[Default EXCEPT !.octaves = 0],
        [Default EXCEPT !.octaves = 1, !.prevailing_wind = "calm"],
        [Default EXCEPT !.seed = 2, !.mode = "none", !.prevailing_wind = "east"],
        [Default EXCEPT !.seed = 2, !.mode = "highlands"],
        [Default EXCEPT !.seed = 4, !.prevailing_wind = "north"],
        [Default EXCEPT !.seed = 6, !.prevailing_wind = "south"]}

(***************************************************************************)
(* TerrainGenerator.__init__ and generate()                                *)
(***************************************************************************)
\* the climate stage called before the river stage
StageOrderClimateFirst ==
  <<"elevation", "moisture", "rivers", "biomes", "serialize">>

\* the stages of generate(), in the order of its calls
StageOrder == <<"elevation", "rivers", "moisture", "biomes", "serialize">>

\* the position after a stage has returned
StageAfter(stage) ==
  LET i == CHOOSE k \in 1 .. Len(StageOrder) : StageOrder[k] = stage
  IN IF i = Len(StageOrder) THEN "returned" ELSE StageOrder[i + 1]

\* a size check that rejects only a grid too small on both sides
SizeRejectedBothSmall(a) == a.width < MinSize /\ a.height < MinSize

\* the size check of the constructor
SizeRejected(a) == a.width < MinSize \/ a.height < MinSize

\* what a generate() call leaves behind: the artifact it returns, with the grid
\* and the river list of the instance
Returned(d, t, rv) == [artifact |-> d, tiles |-> t, rivers |-> rv]

NoReturn == Returned(NoArtifact, <<>>, <<>>)

\* the grid comes from _generate_elevation
NoScenario == [kind |-> "generated"]

Init ==
  /\ args \in Configs
  /\ pc = "init"
  /\ error = "none"
  /\ rng = 0
  /\ tiles = <<>>
  /\ rivers = <<>>
  /\ selected = <<>>
  /\ artifact = NoArtifact
  /\ first = NoReturn
  /\ traced = <<>>
  /\ scenario = NoScenario
  /\ climate = <<>>
  /\ calls = 0
  /\ runs = 0

\* an instance that draws from the generator the instance before it left
NewInstanceSharedRng(a) ==
  [rng |-> IF pc = "init" THEN RngSeed(a.seed) ELSE rng,
   tiles |-> <<>>, rivers |-> <<>>]

\* the fields every new instance starts with: its own generator seeded with
\* the seed, no grid, an empty river list
NewInstance(a) ==
  [rng |-> RngSeed(a.seed), tiles |-> <<>>, rivers |-> <<>>]

\* TerrainGenerator(...): the first instance, or a further one built with the
\* same arguments after a generate() has returned
Construct ==
  /\ pc = "init" \/ (pc = "returned" /\ runs < MaxRuns)
  /\ IF SizeRejected(args)
     THEN /\ error' = "ValueError"
          /\ pc' = "failed"
          /\ UNCHANGED <<rng, tiles, rivers, selected, artifact, calls>>
     ELSE /\ \E n \in {NewInstance(args)} :
               /\ rng' = n.rng
               /\ tiles' = n.tiles
               /\ rivers' = n.rivers
          /\ selected' = <<>>
          /\ artifact' = NoArtifact
          /\ calls' = 0
          /\ pc' = "ready"
          /\ UNCHANGED error
  /\ UNCHANGED <<args, first, traced, scenario, climate, runs>>

\* generate() is called on the instance
Generate ==
  /\ pc \in {"ready", "returned"}
  /\ runs < MaxRuns
  /\ pc' = StageOrder[1]
  /\ calls' = calls + 1
  /\ runs' = runs + 1
  /\ UNCHANGED <<args, error, rng, tiles, rivers, selected, artifact, first,
                 traced, scenario, climate>>

GenerateElevation ==
  /\ pc = "elevation"
  /\ \E r \in {_generate_elevation(args, rng)} :
       /\ tiles' = r.tiles
       /\ rng' = r.rng
       /\ error' = r.error
       /\ pc' = IF r.error = "none" THEN StageAfter("elevation") ELSE "failed"
  /\ UNCHANGED <<args, rivers, selected, artifact, first, traced, scenario,
                 climate, calls, runs>>

GenerateRivers ==
  /\ pc = "rivers"
  /\ \E r \in {_generate_rivers(tiles, args, rivers, rng)} :
       /\ tiles' = r.tiles
       /\ rivers' = r.rivers
       /\ rng' = r.rng
       /\ selected' = r.selected
       /\ traced' = r.traced
       /\ error' = r.error
       /\ pc' = IF r.error = "none" THEN StageAfter("rivers") ELSE "failed"
  /\ UNCHANGED <<args, artifact, first, scenario, climate, calls, runs>>

CalculateMoisture ==
  /\ pc = "moisture"
  /\ \E rd \in {RowDistances(tiles, args)} :
       \E loc \in {MoistureLocals(tiles, rd, args)} :
         /\ tiles' = _calculate_moisture(tiles, loc, args)
         /\ climate' = loc
  /\ pc' = StageAfter("moisture")
  /\ UNCHANGED <<args, error, rng, rivers, selected, artifact, first, traced,
                 scenario, calls, runs>>

AssignBiomes ==
  /\ pc = "biomes"
  /\ tiles' = _assign_biomes(tiles, args)
  /\ pc' = StageAfter("biomes")
  /\ UNCHANGED <<args, error, rng, rivers, selected, artifact, first, traced,
                 scenario, climate, calls, runs>>

\* _identify_features, then _to_dict and the return
Serialize ==
  /\ pc = "serialize"
  /\ \E d \in {_to_dict(tiles, rivers, args, _identify_features)} :
       /\ artifact' = d
       /\ first' = IF runs = 1 THEN Returned(d, tiles, rivers) ELSE first
  /\ pc' = StageAfter("serialize")
  /\ UNCHANGED <<args, error, rng, tiles, rivers, selected, traced, scenario,
                 climate, calls, runs>>

Next ==
  \/ Construct
  \/ Generate
  \/ GenerateElevation
  \/ GenerateRivers
  \/ CalculateMoisture
  \/ AssignBiomes
  \/ Serialize

Spec == Init /\ [][Next]_vars

(***************************************************************************)
(* The river loop of _generate_rivers on synthetic grids: a 50 x 50 grid   *)
(* of one background elevation that carries either a window of free        *)
(* elevations around a source or a corridor descending to an ocean tile    *)
(***************************************************************************)
\* the window: the first WindowCells coordinates of WindowOrder
WindowCells == 4

\* the longest first and second leg of a corridor, in steps
MaxCorridor == 12
MaxBend == 2

WindowOrder ==
  <<<<1, 1>>, <<1, 2>>, <<2, 1>>, <<1, 3>>, <<1, 0>>, <<0, 1>>, <<2, 2>>,
    <<0, 2>>, <<0, 0>>>>

Window == {WindowOrder[i] : i \in 1 .. WindowCells}

\* two water levels and two levels a river may start from
Levels == {Tenths(2), Tenths(3), Tenths(8), Tenths(9)}

Synthetic(kind, source, corridor, background, relief) ==
  [kind |-> kind, source |-> source, corridor |-> corridor,
   background |-> background, relief |-> relief]

\* a window of any elevations on any background, traced from its first tile
\* where a river may start from it
WindowScenarios ==
  {Synthetic("window", WindowOrder[1], <<>>, bg, w) :
     bg \in Levels,
     w \in {v \in [Window -> Levels] : v[WindowOrder[1]] > SourceLevel}}

\* n steps from start in direction d
Leg(start, d, n) ==
  [k \in 1 .. n |-> <<start[1] + k * d[1], start[2] + k * d[2]>>]

\* a first leg of n1 steps, then a second one of n2 steps
Path(start, d1, n1, d2, n2) ==
  LET first_leg == Leg(start, d1, n1)
  IN <<start>> \o first_leg \o Leg(first_leg[n1], d2, n2)

CorridorStarts == {<<0, 0>>, <<20, 20>>}

Corridors ==
  LET D == Range(NeighborOffsets)
      shapes == {s \in CorridorStarts \X D \X (1 .. MaxCorridor) \X D
                                      \X (0 .. MaxBend) :
                   /\ s[2][1] * s[4][1] + s[2][2] * s[4][2] = 0
                   /\ s[5] = 0 => s[4] = <<s[2][2], s[2][1]>>}
      paths == {Path(s[1], s[2], s[3], s[4], s[5]) : s \in shapes}
  IN {p \in paths : \A k \in 1 .. Len(p) : InGrid(Default, p[k][1], p[k][2])}

\* the corridor falls from CorridorTop in equal drops and ends in the ocean
CorridorTop == Hundredths(99)
CorridorDrop == (CorridorTop - Hundredths(45)) \div (MaxCorridor + MaxBend)
OceanLevel == Tenths(3)

CorridorElevation(corridor, k) ==
  IF k = Len(corridor) THEN OceanLevel ELSE CorridorTop - (k - 1) * CorridorDrop

\* behind the source, opposite the second tile of the corridor: nothing, a
\* pit below the ocean level, or a side valley between the source and the
\* second tile
Beside(corridor) ==
  {<<>>} \cup
  {<<n, e>> : n \in Range(_get_neighbors(Default, corridor[1][1], corridor[1][2]))
                     \cap {<<2 * corridor[1][1] - corridor[2][1],
                              2 * corridor[1][2] - corridor[2][2]>>},
              e \in {Tenths(2), CorridorTop - CorridorDrop \div 2}}

CorridorRelief(corridor, beside) ==
  [c \in Range(corridor) \cup (IF beside = <<>> THEN {} ELSE {beside[1]}) |->
     IF c \in Range(corridor)
     THEN CorridorElevation(corridor, CHOOSE k \in 1 .. Len(corridor) : corridor[k] = c)
     ELSE beside[2]]

CorridorScenarios ==
  {Synthetic("corridor", s[1][1], s[1], Unit, CorridorRelief(s[1], s[2])) :
     s \in {t \in Corridors \X (UNION {Beside(p) : p \in Corridors}) :
              t[2] \in Beside(t[1])}}

SyntheticGrid(sc) ==
  [y \in Ys(Default) |-> [x \in Xs(Default) |->
     Tile(x, y, IF <<x, y>> \in DOMAIN sc.relief THEN sc.relief[<<x, y>>]
                ELSE sc.background)]]

SyntheticInit ==
  /\ args = Default
  /\ pc = "synthetic"
  /\ error = "none"
  /\ rng = RngSeed(Default.seed)
  /\ rivers = <<>>
  /\ artifact = NoArtifact
  /\ first = NoReturn
  /\ traced = <<>>
  /\ climate = <<>>
  /\ calls = 0
  /\ runs = 0
  /\ \E sc \in WindowScenarios \cup CorridorScenarios :
       /\ sc.relief[sc.source] > SourceLevel
       /\ scenario = sc
       /\ tiles = SyntheticGrid(sc)
       /\ selected = <<sc.source>>

\* the loop of _generate_rivers over the given sources
TraceSelected ==
  /\ pc = "synthetic"
  /\ \E r \in {RiverLoop(tiles, args, selected, 1, rivers, <<>>)} :
       /\ tiles' = r[1]
       /\ rivers' = r[2]
       /\ traced' = r[3]
  /\ pc' = "traced"
  /\ UNCHANGED <<args, error, rng, selected, artifact, first, scenario,
                 climate, calls, runs>>

TraceNext == TraceSelected

TraceSpec == SyntheticInit /\ [][TraceNext]_vars

(***************************************************************************)
(* _assign_biomes on synthetic grids: every column holds one elevation and *)
(* every row one moisture, each near a bound of a biome rule               *)
(***************************************************************************)
\* the grids are shifted by -MaxShift .. MaxShift steps of the fixed point
MaxShift == 4

\* the bounds of the elevation and moisture ranges of the rules
ElevationBounds ==
  <<0, Tenths(3), Hundredths(38), Hundredths(42), Tenths(5), Tenths(7),
    Hundredths(78), Unit>>
MoistureBounds == <<0, Hundredths(25), Tenths(6), Tenths(7), Unit>>

\* the value of column or row i: a bound, moved by a multiple of the shifts'
\* span and by the shift d, kept within [0, 1]
Mark(bounds, i, d) ==
  LET n == Len(bounds)
  IN Clamp(bounds[(i % n) + 1]
           + ((i \div n) - (MinSize \div (2 * n))) * (2 * MaxShift + 1) + d)

MarkScenarios ==
  {[kind |-> "marks", elevation |-> de, moisture |-> dm] :
     de \in -MaxShift .. MaxShift, dm \in -MaxShift .. MaxShift}

MarksGrid(sc) ==
  [y \in Ys(Default) |-> [x \in Xs(Default) |->
     [Tile(x, y, Mark(ElevationBounds, x, sc.elevation))
        EXCEPT !.moisture = Mark(MoistureBounds, y, sc.moisture)]]]

MarksInit ==
  /\ args = Default
  /\ pc = "marks"
  /\ error = "none"
  /\ rng = RngSeed(Default.seed)
  /\ rivers = <<>>
  /\ selected = <<>>
  /\ artifact = NoArtifact
  /\ first = NoReturn
  /\ traced = <<>>
  /\ climate = <<>>
  /\ calls = 0
  /\ runs = 0
  /\ \E sc \in MarkScenarios :
       /\ scenario = sc
       /\ tiles = MarksGrid(sc)

\* _assign_biomes on the grid of marks
AssignMarks ==
  /\ pc = "marks"
  /\ tiles' = _assign_biomes(tiles, args)
  /\ pc' = "assigned"
  /\ UNCHANGED <<args, error, rng, rivers, selected, artifact, first, traced,
                 scenario, climate, calls, runs>>

BiomeNext == AssignMarks

BiomeSpec == MarksInit /\ [][BiomeNext]_vars

(***************************************************************************)
(* Properties                                                              *)
(***************************************************************************)
Coords == {<<x, y>> : x \in Xs(args), y \in Ys(args)}

\* the coordinates whose tile a stage has written
Written == {c \in Coords : tiles # <<>> /\ tiles[c[2]][c[1]] # NoneTile}

TileAt(c) == tiles[c[2]][c[1]]

\* the positions of generate() after the elevation stage has returned
AfterElevation == {"rivers", "moisture", "biomes", "serialize", "returned"}

\* the positions of generate() after the river stage has returned
AfterHydrology == {"moisture", "biomes", "serialize", "returned"}

\* C1: a constructor call with width < 50 or height < 50 raises ValueError
\* before anything is computed (no grid, no tile, no river, no generate()), and
\* with both at least 50 the constructor raises nothing
SizeCheckFirst ==
  /\ (pc # "init" /\ (args.width < 50 \/ args.height < 50))
       => /\ pc = "failed" /\ error = "ValueError"
          /\ tiles = <<>> /\ rivers = <<>> /\ Written = {}
          /\ artifact = NoArtifact /\ runs = 0
  /\ (args.width >= 50 /\ args.height >= 50 /\ runs = 0)
       => pc \in {"init", "ready"} /\ error = "none"

\* a grid one short in width only has been rejected
SizeCheckFirstSeen ==
  /\ pc = "failed" /\ error = "ValueError" /\ runs = 0
  /\ args.width = 49 /\ args.height >= 50

\* C2: from the end of the elevation stage onward every tile's water flag
\* equals (elevation < 0.4)
WaterIffBelowLevel ==
  (pc \in AfterElevation \/ (pc = "failed" /\ Written # {}))
    => \A c \in Coords :
         TileAt(c).water = (TileAt(c).elevation * 10 < 4 * Unit)

\* a returned grid with water, with land and with a kept river
WaterIffBelowLevelSeen ==
  /\ pc = "returned" /\ rivers # <<>>
  /\ \E c \in Coords : TileAt(c).water
  /\ \E c \in Coords : TileAt(c).river /\ ~TileAt(c).water

\* C3: after generate() has returned every tile has its elevation in [0, 1]
\* and its moisture in [0, 1]
UnitRanges ==
  pc = "returned"
    => \A c \in Coords :
         /\ 0 <= TileAt(c).elevation /\ TileAt(c).elevation <= Unit
         /\ 0 <= TileAt(c).moisture /\ TileAt(c).moisture <= Unit

\* a returned grid where the clamp has cut an elevation to 1.0 and a moisture
\* to 0.0 or 1.0
UnitRangesSeen ==
  /\ pc = "returned"
  /\ \E c \in Coords : TileAt(c).elevation = Unit
  /\ \E c \in Coords : TileAt(c).moisture \in {0, Unit}

\* the tiles a river may start from: elevation > 0.7 and not water
Eligible ==
  {c \in Coords : TileAt(c).elevation * 10 > 7 * Unit /\ ~TileAt(c).water}

\* whether two coordinates are one 4-connected step apart
OneStep(c, d) == Abs(c[1] - d[1]) + Abs(c[2] - d[2]) = 1

\* a path of more than 10 tiles from the river's source, in 4-connected steps
\* inside the grid, without a repeated tile, all its tiles flagged as river
ValidRiver(river) ==
  LET path == river.path
  IN /\ Len(path) > 10
     /\ path[1] = river.source
     /\ \A k \in 1 .. Len(path) : path[k] \in Coords /\ TileAt(path[k]).river
     /\ \A k \in 1 .. Len(path) - 1 : OneStep(path[k], path[k + 1])
     /\ \A j, k \in 1 .. Len(path) : j # k => path[j] # path[k]

\* C4: after the river stage every kept river has a path of more than 10
\* tiles that starts at its source, moves one 4-connected step inside the grid
\* at a time, repeats no tile, and has the river flag set on each of its tiles
RiverPathsValid ==
  pc \in AfterHydrology => \A i \in 1 .. Len(rivers) : ValidRiver(rivers[i])

\* C5: after one generate() call with river_count >= 0 the number of kept
\* rivers is at most min(river_count, number of eligible tiles)
RiverCountBounded ==
  (pc = "returned" /\ calls = 1 /\ args.river_count >= 0)
    => Len(rivers) <= Min(args.river_count, Cardinality(Eligible))

\* one call has returned with as many rivers as were requested, each kept
RiverCountBoundedSeen ==
  /\ pc = "returned" /\ calls = 1
  /\ args.river_count = 3 /\ Len(rivers) = 3 /\ Cardinality(Eligible) > 3

\* C6: source selection picks exactly min(river_count, E) pairwise distinct
\* tiles, each eligible; when river_count exceeds the number E of eligible
\* tiles (E = 0 included) every eligible tile is selected once and no error is
\* raised
SourcesSampled ==
  LET E == Cardinality(Eligible)
  IN /\ pc \in AfterHydrology
          => /\ Len(selected) = Min(args.river_count, E)
             /\ \A i, j \in 1 .. Len(selected) :
                  i # j => selected[i] # selected[j]
             /\ Range(selected) \subseteq Eligible
             /\ args.river_count > E => Range(selected) = Eligible
     /\ (Written # {} /\ args.river_count > E) => error = "none"

\* the river stage has returned with fewer eligible tiles than requested
\* rivers, all of them selected
SourcesSampledSeen ==
  /\ pc \in AfterHydrology
  /\ Eligible # {}
  /\ args.river_count > Cardinality(Eligible)
  /\ Range(selected) = Eligible

\* C7: generate() has no partial failure, whatever the constructor arguments
\* (octaves = 0, zero or negative river_count): no error is raised once the
\* elevation stage has written a tile
NoPartialFailure == error # "none" => Written = {}

\* C8: two instances built with the same arguments and each run once end with
\* the same grid, the same river list and the same artifact, in every mode
SameArgsSameWorld ==
  (pc = "returned" /\ calls = 1)
    => first = Returned(artifact, tiles, rivers)

\* a second instance has returned in archipelago mode with the world of the
\* first
SameArgsSameWorldSeen ==
  /\ pc = "returned" /\ calls = 1 /\ runs = 2
  /\ first = Returned(artifact, tiles, rivers)
  /\ args.mode = "archipelago"

\* C9: the grid and the river list are created fresh per call: a second
\* generate() on the same instance returns the artifact of the first, the
\* river list holds only rivers traced on the current grid, no river id twice
FreshPerCall ==
  (pc = "returned" /\ calls = 2)
    => /\ artifact = first.artifact
       /\ \A i \in 1 .. Len(rivers) : ValidRiver(rivers[i])
       /\ \A i, j \in 1 .. Len(rivers) : i # j => rivers[i].id # rivers[j].id

\* whether the step sets a river flag, computes a moisture, assigns a biome
RiverWritten ==
  /\ tiles' # <<>>
  /\ \E c \in Coords :
       tiles'[c[2]][c[1]].river /\ (tiles = <<>> \/ ~TileAt(c).river)

MoistureWritten ==
  /\ tiles' # <<>>
  /\ \E c \in Coords :
       /\ tiles'[c[2]][c[1]].moisture # 0
       /\ tiles = <<>> \/ tiles'[c[2]][c[1]].moisture # TileAt(c).moisture

BiomeWritten ==
  /\ tiles' # <<>>
  /\ \E c \in Coords :
       /\ tiles'[c[2]][c[1]].biome \notin {"", "None"}
       /\ tiles = <<>> \/ tiles'[c[2]][c[1]].biome # TileAt(c).biome

\* one step of a generate() call that keeps the order of the stages
StageStep ==
  /\ RiverWritten
       => /\ pc = "rivers"
          /\ \A c \in Coords : TileAt(c).moisture = 0 /\ TileAt(c).biome = ""
  /\ MoistureWritten
       => pc = "moisture" /\ \A c \in Coords : TileAt(c).biome = ""
  /\ BiomeWritten => pc = "biomes"
  /\ (artifact' # artifact /\ artifact' # NoArtifact)
       => /\ pc = "serialize"
          /\ \A c \in Coords : TileAt(c).biome \notin {"", "None"}
  /\ pc' = "elevation" => pc \in {"ready", "returned"}
  /\ pc = "elevation" => pc' \in {"rivers", "failed"}
  /\ pc = "rivers" => pc' \in {"moisture", "failed"}
  /\ pc = "moisture" => pc' = "biomes"
  /\ pc = "biomes" => pc' = "serialize"
  /\ pc = "serialize" => pc' = "returned"

\* C10: within one generate() call the stages run once each in the order
\* elevation, rivers, moisture, biomes, serialization: no river flag is
\* written once a moisture is computed, no moisture once a biome is assigned,
\* and the artifact is built only when every tile has a biome
StagesInOrder == [][StageStep]_vars

\* a call has returned an artifact of a grid with river flags, moistures and
\* a biome on every tile
StagesInOrderSeen ==
  /\ pc = "returned" /\ artifact # NoArtifact
  /\ \E c \in Coords : TileAt(c).river
  /\ \E c \in Coords : TileAt(c).moisture # 0
  /\ \A c \in Coords : TileAt(c).biome \notin {"", "None"}

\* the tile at c after the step
TileAfter(c) == tiles'[c[2]][c[1]]

\* whether the step leaves the named fields of every tile as they were
SameElevationWater ==
  \A c \in Coords : /\ TileAfter(c).elevation = TileAt(c).elevation
                    /\ TileAfter(c).water = TileAt(c).water
                    /\ TileAfter(c).x = TileAt(c).x /\ TileAfter(c).y = TileAt(c).y

SameMoisture == \A c \in Coords : TileAfter(c).moisture = TileAt(c).moisture

SameBiome == \A c \in Coords : TileAfter(c).biome = TileAt(c).biome

SameRiver == \A c \in Coords : TileAfter(c).river = TileAt(c).river

\* one step of a stage that writes no field but its own
FrameStep ==
  /\ pc = "rivers"
       => /\ SameElevationWater /\ SameMoisture /\ SameBiome
          /\ \A c \in Coords : TileAt(c).river => TileAfter(c).river
  /\ pc = "moisture" => SameElevationWater /\ SameBiome /\ SameRiver
  /\ pc = "biomes" => SameElevationWater /\ SameMoisture /\ SameRiver
  /\ pc = "serialize" => tiles' = tiles /\ rivers' = rivers
  /\ (pc \in {"ready", "returned"} /\ tiles' # <<>>) => tiles' = tiles
  /\ pc = "elevation" => \A c \in Coords : ~TileAfter(c).river

\* C11: each stage writes only its own field: the river stage leaves
\* elevation, water, moisture and biome of every tile unchanged and changes
\* river only from false to true, the moisture stage changes only moisture,
\* the biome stage only biome, serialization nothing; river is never cleared
\* and never set outside the river stage
StagesWriteOwnField == [][FrameStep]_vars

\* a grid has passed every stage and has a river tile with a moisture and a
\* biome next to water tiles
StagesWriteOwnFieldSeen ==
  /\ pc = "returned"
  /\ \E c \in Coords :
       TileAt(c).river /\ TileAt(c).moisture > 0 /\ TileAt(c).biome # ""
  /\ \E c \in Coords : TileAt(c).water /\ TileAt(c).biome # ""

\* C12: in highlands mode no tile ends up with water == true: for every
\* blended elevation in [0, 1] the shaped value 0.5 + elevation * 0.5, times
\* 1.5 and clamped to [0, 1], is not below the 0.4 water threshold
HighlandsDry ==
  args.mode = "highlands"
    => /\ pc \in AfterElevation => \A c \in Coords : ~TileAt(c).water
       /\ \A e \in 0 .. Unit :
            Clamp(Boost(args, HighlandsShape(e))) * 10 >= 4 * Unit

\* a highlands grid with tiles below the ceiling of 1.0 and no water
HighlandsDrySeen ==
  /\ args.mode = "highlands" /\ pc \in AfterElevation
  /\ \E c \in Coords : TileAt(c).elevation < Unit
  /\ \A c \in Coords : ~TileAt(c).water

\* C13: the moisture and biome stages are functions of the stored elevation,
\* water and river fields only: _calculate_moisture and then _assign_biomes
\* run again on a finished grid leave every tile's moisture and biome as they
\* were
ClimateBiomeRerun ==
  pc = "returned"
    => \A rd \in {RowDistances(tiles, args)} :
         \A again \in {_calculate_moisture(tiles, MoistureLocals(tiles, rd, args),
                                            args)} :
           _assign_biomes(again, args) = tiles

\* a finished grid with moistures strictly inside (0, 1) and more than one
\* biome
ClimateBiomeRerunSeen ==
  /\ pc = "returned"
  /\ \E c \in Coords : 0 < TileAt(c).moisture /\ TileAt(c).moisture < Unit
  /\ \E c, d \in Coords : TileAt(c).biome # TileAt(d).biome

\* the Manhattan distance walked along a path
RECURSIVE Walked(_)
Walked(path) ==
  IF Len(path) <= 1 THEN 0
  ELSE Abs(path[2][1] - path[1][1]) + Abs(path[2][2] - path[1][2])
       + Walked(Tail(path))

\* the scenario's corridor falls strictly from tile to tile, over land down to
\* a water tile, and at each of its tiles the next one lies strictly below
\* every other neighbour
SteepestCorridor ==
  LET p == scenario.corridor
  IN /\ scenario.kind = "corridor"
     /\ TileAt(p[Len(p)]).water
     /\ \A k \in 1 .. Len(p) - 1 :
          /\ ~TileAt(p[k]).water
          /\ TileAt(p[k + 1]).elevation < TileAt(p[k]).elevation
          /\ \A n \in Range(_get_neighbors(args, p[k][1], p[k][2])) \ {p[k + 1]} :
               TileAt(n).elevation > TileAt(p[k + 1]).elevation

\* the trace of a steepest corridor begins at the source and ends at the
\* ocean tile
CorridorFollowed ==
  LET path == traced[1].path
      p == scenario.corridor
  IN path[1] = p[1] /\ path[Len(path)] = p[Len(p)]

\* C14 as stated: on a grid whose elevation falls strictly along a corridor
\* from a source to an ocean tile, the corridor being the steepest descent,
\* the traced path begins at the source and ends at the ocean tile, and the
\* river's length equals the Manhattan distance walked from source to ocean
CorridorLengthIsDistance ==
  (pc = "traced" /\ SteepestCorridor)
    => /\ CorridorFollowed
       /\ \A i \in 1 .. Len(rivers) : rivers[i].length = Walked(rivers[i].path)

\* C14 as amended: ... and the river's length is the number of tiles of its
\* path, the Manhattan distance walked from source to ocean plus one
CorridorLengthIsTiles ==
  (pc = "traced" /\ SteepestCorridor)
    => /\ CorridorFollowed
       /\ Len(traced[1].path) > 10 => Len(rivers) = 1
       /\ \A i \in 1 .. Len(rivers) :
            /\ rivers[i].path = scenario.corridor
            /\ rivers[i].length = Walked(scenario.corridor) + 1

\* a bent steepest corridor with a side valley at its source has been traced
\* and recorded as a river
CorridorLengthIsTilesSeen ==
  /\ pc = "traced" /\ SteepestCorridor
  /\ Len(rivers) = 1
  /\ \E k \in 2 .. Len(scenario.corridor) - 1 :
       /\ scenario.corridor[k - 1][1] # scenario.corridor[k + 1][1]
       /\ scenario.corridor[k - 1][2] # scenario.corridor[k + 1][2]
  /\ DOMAIN scenario.relief # Range(scenario.corridor)

\* C15: in the emitted artifact every tile entry has water == (elevation <
\* 0.4), elevation being the emitted value rounded to 3 decimals, whatever the
\* stored elevation (values in [0.3995, 0.4) included)
EmittedWaterIffBelowLevel ==
  artifact # NoArtifact
    => \A i \in DOMAIN artifact.tiles :
         artifact.tiles[i].water = (artifact.tiles[i].elevation < 400)

\* the tiles next to c that lie strictly below it
LowerNeighbors(c) ==
  {n \in Range(_get_neighbors(args, c[1], c[2])) :
     TileAt(n).elevation < TileAt(c).elevation}

\* C16: a trace stops as soon as its current tile is water: in every traced
\* path no tile but the last is a water tile, and a trace whose current tile
\* is water appends nothing further
TraceStopsAtWater ==
  pc = "traced"
    => \A i \in 1 .. Len(traced) :
         LET path == traced[i].path
         IN /\ \A k \in 1 .. Len(path) - 1 : ~TileAt(path[k]).water
            /\ TileAt(path[Len(path)]).water
                 => traced[i].done /\ traced[i].current = path[Len(path)]

\* a trace has ended on a water tile that has a lower tile next to it
TraceStopsAtWaterSeen ==
  /\ pc = "traced"
  /\ \E i \in 1 .. Len(traced) :
       LET path == traced[i].path
       IN /\ Len(path) >= 2
          /\ TileAt(path[Len(path)]).water
          /\ LowerNeighbors(path[Len(path)]) # {}

\* C17: every recorded river has its mouth on the last tile of its path, and
\* that tile is water or a local minimum (no in-grid 4-neighbour strictly
\* below it); the width * height iteration cap is never what ends a trace
MouthWaterOrPit ==
  pc \in AfterHydrology
    => /\ \A i \in 1 .. Len(rivers) :
            LET last == rivers[i].path[Len(rivers[i].path)]
            IN /\ rivers[i].mouth = last
               /\ TileAt(last).water \/ LowerNeighbors(last) = {}
       /\ \A j \in 1 .. Len(traced) :
            traced[j].done /\ traced[j].iterations <= args.width * args.height

\* a river of more than 50 tiles has been recorded whose mouth is a water tile
MouthWaterOrPitSeen ==
  /\ pc \in AfterHydrology
  /\ \E i \in 1 .. Len(rivers) :
       rivers[i].length > 50 /\ TileAt(rivers[i].mouth).water

\* the neighbours of c in the order (x, y+1), (x+1, y), (x, y-1), (x-1, y)
InOrder(c) ==
  <<<<c[1], c[2] + 1>>, <<c[1] + 1, c[2]>>, <<c[1], c[2] - 1>>, <<c[1] - 1, c[2]>>>>

\* the in-grid tiles next to c, not yet visited, strictly below c
Candidates(c, visited) ==
  {n \in Range(InOrder(c)) \ visited :
     /\ n \in Coords
     /\ TileAt(n).elevation < TileAt(c).elevation}

\* the candidates of minimum elevation
Lowest(c, visited) ==
  {n \in Candidates(c, visited) :
     \A m \in Candidates(c, visited) : TileAt(n).elevation <= TileAt(m).elevation}

\* the lowest candidate that comes first in the order
FirstLowest(c, visited) ==
  InOrder(c)[CHOOSE q \in 1 .. 4 :
               /\ InOrder(c)[q] \in Lowest(c, visited)
               /\ \A r \in 1 .. q - 1 : InOrder(c)[r] \notin Lowest(c, visited)]

\* C18: at each step of a trace from a non-water tile the next tile is the
\* in-grid, not yet visited 4-neighbour of minimum elevation among those
\* strictly below the current tile, the earliest in the order (x, y+1),
\* (x+1, y), (x, y-1), (x-1, y) when several share the minimum; a neighbour
\* of the current tile's own elevation is never chosen
NextIsFirstLowest ==
  pc = "traced"
    => \A i \in 1 .. Len(traced) :
         LET path == traced[i].path
             before(k) == {path[j] : j \in 1 .. k}
         IN /\ \A k \in 1 .. Len(path) - 1 :
                 /\ Candidates(path[k], before(k)) # {}
                 /\ path[k + 1] = FirstLowest(path[k], before(k))
                 /\ TileAt(path[k + 1]).elevation < TileAt(path[k]).elevation
            /\ ~TileAt(path[Len(path)]).water
                 => Candidates(path[Len(path)], before(Len(path))) = {}

\* a trace has taken a step where two neighbours shared the minimum and a
\* third one had the elevation of the current tile
NextIsFirstLowestSeen ==
  /\ pc = "traced"
  /\ \E i \in 1 .. Len(traced) :
       LET path == traced[i].path
       IN /\ Len(path) >= 2
          /\ Cardinality(Lowest(path[1], {path[1]})) >= 2
          /\ \E n \in Range(InOrder(path[1])) \cap Coords :
               TileAt(n).elevation = TileAt(path[1]).elevation

\* C19: on every elevation field, all-equal and ring-shaped plateaus
\* included, and from every source, _trace_river_path ends within
\* width x height loop iterations and returns at most width x height tiles
TraceBounded ==
  pc = "traced"
    => /\ Len(traced) = Len(selected)
       /\ \A i \in 1 .. Len(traced) :
            /\ traced[i].iterations <= args.width * args.height
            /\ Len(traced[i].path) <= args.width * args.height

\* a trace has ended on a grid of one single elevation
TraceBoundedSeen ==
  /\ pc = "traced"
  /\ scenario.kind = "window"
  /\ \A c \in Window : scenario.relief[c] = scenario.background
  /\ Len(traced) = 1
  /\ traced[1].done
  /\ traced[1].iterations = 1
  /\ traced[1].path = <<scenario.source>>

\* a trace has ended on a plateau ringed by its own elevation: a window of
\* one elevation on a higher background
TraceBoundedRingSeen ==
  /\ pc = "traced"
  /\ scenario.kind = "window"
  /\ \A c \in Window : scenario.relief[c] = scenario.relief[scenario.source]
  /\ scenario.background > scenario.relief[scenario.source]
  /\ traced[1].done
  /\ Len(traced[1].path) = 1

\* the traces of the call that are longer than MinRiverLength tiles
KeptTraces == {j \in 1 .. Len(traced) : Len(traced[j].path) > 10}

\* the tiles on the path of some river of the list longer than 10 tiles
OnKeptRiver ==
  UNION {Range(rivers[i].path) : i \in {k \in 1 .. Len(rivers) : Len(rivers[k].path) > 10}}

\* the river loop has run once on fresh tiles: on a synthetic grid, or in
\* the first generate() call of an instance
RiversOfOneCall ==
  \/ pc = "traced"
  \/ calls = 1 /\ error = "none" /\ pc \in AfterHydrology

\* C20: after the Hydrology stage of one generate() call a tile has
\* river = true exactly when it lies on the path of a kept river, one of
\* more than 10 tiles; a trace of 10 tiles or fewer is not in the river
\* list and marks no tile
RiverIffOnKeptPath ==
  RiversOfOneCall
    => /\ \A c \in Coords : TileAt(c).river <=> c \in OnKeptRiver
       /\ Len(rivers) = Cardinality(KeptTraces)
       /\ \A i \in 1 .. Len(rivers) :
            /\ rivers[i].id + 1 \in KeptTraces
            /\ rivers[i].path = traced[rivers[i].id + 1].path
       /\ \A j \in (1 .. Len(traced)) \ KeptTraces :
            /\ \A i \in 1 .. Len(rivers) : rivers[i].id # j - 1
            /\ \A k \in 1 .. Len(traced[j].path) :
                 TileAt(traced[j].path[k]).river => traced[j].path[k] \in OnKeptRiver

\* a trace of exactly 10 tiles has been dropped and has marked no tile
RiverIffOnKeptPathSeen ==
  /\ pc = "traced"
  /\ Len(traced) = 1
  /\ Len(traced[1].path) = 10
  /\ rivers = <<>>
  /\ \A c \in Coords : ~TileAt(c).river

\* a trace of exactly 11 tiles has been kept and has marked its tiles only
ShortestRiverSeen ==
  /\ pc = "traced"
  /\ Len(rivers) = 1
  /\ rivers[1].length = 11
  /\ \A c \in Coords : TileAt(c).river <=> c \in Range(rivers[1].path)

\* a generate() call has kept a river and dropped a trace whose tiles are
\* on no river
DroppedBesideKeptSeen ==
  /\ calls = 1
  /\ error = "none"
  /\ pc \in AfterHydrology
  /\ Len(rivers) >= 1
  /\ \E j \in (1 .. Len(traced)) \ KeptTraces :
       \A k \in 1 .. Len(traced[j].path) : ~TileAt(traced[j].path[k]).river

\* the moisture stage of the first generate() call of the behaviour has just
\* run: the tiles carry its moisture and climate holds its locals
MoistureDone == pc = "biomes" /\ runs = 1

\* the tiles of the grid with water or river true
WetTiles == {w \in Coords : TileAt(w).water \/ TileAt(w).river}

\* the Manhattan distances from c to the tiles of W within 40 columns and 40
\* rows of c
WindowDistances(c, W) ==
  {Abs(w[1] - c[1]) + Abs(w[2] - c[2]) :
     w \in {v \in W : Abs(v[1] - c[1]) <= 40 /\ Abs(v[2] - c[2]) <= 40}}

\* C21: for every tile _distance_to_water returns the least Manhattan
\* distance to an in-grid tile with water or river true within 40 columns
\* and 40 rows, the tile itself included, and 40 when there is none; the
\* water-proximity term max(0, 1 - distance / 30) is then 1 on a water or
\* river tile and 0 when the window holds no such tile
DistanceIsNearestInWindow ==
  MoistureDone
    => LET W == WetTiles
       IN \A c \in Coords :
            LET D == WindowDistances(c, W)
                d == climate[c[2]][c[1]].water_distance
            IN /\ D # {} => d \in D /\ \A e \in D : d <= e
               /\ D = {} => d = 40 /\ WaterMoisture(d) = 0
               /\ c \in W => d = 0 /\ WaterMoisture(d) = Unit

\* the distances have been computed on a grid with a river tile on land and
\* with a tile 30 or more steps from the nearest water or river
DistanceIsNearestInWindowSeen ==
  /\ MoistureDone
  /\ \E c \in Coords :
       /\ TileAt(c).river /\ ~TileAt(c).water
       /\ climate[c[2]][c[1]].water_distance = 0
  /\ \E c \in Coords : climate[c[2]][c[1]].water_distance >= 30

\* the distances have been computed on a grid without water and rivers
DryGridSeen ==
  /\ MoistureDone
  /\ WetTiles = {}
  /\ \A c \in Coords : climate[c[2]][c[1]].water_distance = 40

\* the tile i cells upwind of c: west x - i, east x + i, north y - i,
\* south y + i
Upwind(c, wind, i) ==
  IF wind = "west" THEN <<c[1] - i, c[2]>>
  ELSE IF wind = "east" THEN <<c[1] + i, c[2]>>
  ELSE IF wind = "north" THEN <<c[1], c[2] - i>>
  ELSE <<c[1], c[2] + i>>

\* the penalties (elevation - 0.7) * 0.5 of the in-grid tiles above 0.7 at
\* the offsets 1 to reach upwind of c
Penalties(c, wind, reach) ==
  {(TileAt(Upwind(c, wind, i)).elevation - 7000) \div 2 :
     i \in {k \in 1 .. reach :
              /\ Upwind(c, wind, k) \in Coords
              /\ TileAt(Upwind(c, wind, k)).elevation > 7000}}

\* the largest penalty, 0 when there is none
LargestPenalty(c, wind, reach) ==
  LET P == Penalties(c, wind, reach)
  IN IF P = {} THEN 0 ELSE CHOOSE m \in P : \A q \in P : m >= q

\* C22: the rain-shadow term of a tile is the maximum, not the sum, of
\* (elevation - 0.7) * 0.5 over the in-grid tiles at offsets 1 to 15 cells
\* directly upwind whose elevation exceeds 0.7, and 0 when there is none; a
\* tile exactly 15 cells upwind contributes
ShadowOverFifteenCells ==
  (pc = "biomes" /\ args.prevailing_wind \in {"west", "east", "north", "south"})
    => \A c \in Coords :
         climate[c[2]][c[1]].rain_shadow = LargestPenalty(c, args.prevailing_wind, 15)

\* what the scan does: the same over the offsets 1 to 14
ShadowOverFourteenCells ==
  (pc = "biomes" /\ args.prevailing_wind \in {"west", "east", "north", "south"})
    => \A c \in Coords :
         climate[c[2]][c[1]].rain_shadow = LargestPenalty(c, args.prevailing_wind, 14)

\* the order of the biomes as the claim gives it
StatedOrder ==
  <<"deep_ocean", "ocean", "beach", "mountain", "highland", "wetlands",
    "temperate_forest", "grassland", "desert">>

\* elevation in [lo, hi) and moisture in [lo, hi] of the biome's rule
Contains(biome, elevation, moisture) ==
  LET rule == _load_biome_rules[biome]
  IN /\ rule.elevation[1] <= elevation /\ elevation < rule.elevation[2]
     /\ rule.moisture[1] <= moisture /\ moisture <= rule.moisture[2]

\* biome is the first of the stated order whose rule contains the values
FirstContaining(biome, elevation, moisture) ==
  \E i \in 1 .. Len(StatedOrder) :
    /\ StatedOrder[i] = biome
    /\ Contains(biome, elevation, moisture)
    /\ \A j \in 1 .. i - 1 : ~Contains(StatedOrder[j], elevation, moisture)

\* C23: _determine_biome returns the first biome in the order deep_ocean,
\* ocean, beach, mountain, highland, wetlands, temperate_forest, grassland,
\* desert whose half-open elevation range and closed moisture range both
\* contain the tile's values: elevation in [0.42, 0.5) with moisture >= 0.7
\* gives wetlands, moisture exactly 0.6 temperate_forest rather than
\* grassland, moisture exactly 0.25 grassland rather than desert
FirstRuleWins ==
  pc = "assigned"
    => \A y \in Ys(args), x \in Xs(args) :
         LET t == tiles[y][x]
             land == 4200 <= t.elevation /\ t.elevation < 7000
         IN /\ (\E b \in Range(StatedOrder) : Contains(b, t.elevation, t.moisture))
                 => FirstContaining(t.biome, t.elevation, t.moisture)
            /\ (t.elevation < 5000 /\ land /\ t.moisture >= 7000)
                 => t.biome = "wetlands"
            /\ (land /\ t.moisture = 6000) => t.biome = "temperate_forest"
            /\ (land /\ t.moisture = 2500) => t.biome = "grassland"

\* the biomes have been assigned on a grid that holds the three stated
\* cases: wetlands under the forest's range, and a forest and a grassland on
\* the shared bound of two moisture ranges
FirstRuleWinsSeen ==
  /\ pc = "assigned"
  /\ \E y \in Ys(args), x \in Xs(args) :
       /\ tiles[y][x].biome = "wetlands"
       /\ Contains("temperate_forest", tiles[y][x].elevation, tiles[y][x].moisture)
  /\ \E y \in Ys(args), x \in Xs(args) :
       /\ tiles[y][x].biome = "temperate_forest"
       /\ tiles[y][x].moisture = 6000
       /\ Contains("grassland", tiles[y][x].elevation, tiles[y][x].moisture)
  /\ \E y \in Ys(args), x \in Xs(args) :
       /\ tiles[y][x].biome = "grassland"
       /\ tiles[y][x].moisture = 2500
       /\ Contains("desert", tiles[y][x].elevation, tiles[y][x].moisture)

\* the modes that have a shape transform
ShapedModes == {"continent", "archipelago", "highlands"}

\* C24: when the mode is none of continent, archipelago, highlands, the
\* elevation is neither reshaped nor multiplied by 1.5, the stored elevation
\* being the clamped 0.6/0.4 blend itself; the post-multiply is applied
\* exactly when a shape transform was applied
BoostOnlyWhenShaped ==
  pc = "rivers"
    => \A y \in Ys(args), x \in Xs(args) :
         LET blend == BlendedElevation(args, x, y)
         IN /\ args.mode \notin ShapedModes
                 => tiles[y][x].elevation = Clamp(blend)
            /\ args.mode = "highlands"
                 => tiles[y][x].elevation = Clamp((HighlandsShape(blend) * 15) \div 10)
            /\ args.mode = "continent"
                 => tiles[y][x].elevation
                      = Clamp((ContinentShape(args, x, y, blend) * 15) \div 10)

\* the grid with every river flag cleared: the elevation and water fields as
\* the river stage found them
Snapshot ==
  [y \in Ys(args) |-> [x \in Xs(args) |-> [tiles[y][x] EXCEPT !.river = FALSE]]]

\* the grid t with river = true written on the tiles of the given paths
Marked(t, paths) ==
  LET on == UNION {Range(path) : path \in paths}
  IN [y \in Ys(args) |-> [x \in Xs(args) |->
        IF <<x, y>> \in on THEN [t[y][x] EXCEPT !.river = TRUE] ELSE t[y][x]]]

\* C25: the path traced from a source depends on the elevation and water
\* fields only, never on river flags: tracing every selected source against
\* the elevation/water snapshot and writing all river flags afterwards, in
\* any order or interleaving, gives the paths, the kept rivers and the
\* final river flags of the sequential trace-then-mark loop
TraceIgnoresRiverFlags ==
  RiversOfOneCall
    => \E snapshot \in {Snapshot} :
         LET deferred == [j \in 1 .. Len(selected) |->
                            _trace_river_path(snapshot, args, selected[j][1],
                                              selected[j][2])]
             kept == {j \in 1 .. Len(selected) : Len(deferred[j]) > 10}
         IN /\ Len(traced) = Len(selected)
            /\ \A j \in 1 .. Len(selected) :
                 /\ traced[j].path = deferred[j]
                 /\ traced[j].path
                      = _trace_river_path(tiles, args, selected[j][1], selected[j][2])
            /\ {rivers[i].path : i \in 1 .. Len(rivers)} = {deferred[j] : j \in kept}
            /\ Len(rivers) = Cardinality(kept)
            /\ tiles = Marked(snapshot, {deferred[j] : j \in kept})

\* two rivers of one call share a tile: the later one was traced over tiles
\* the earlier one had marked
TraceIgnoresRiverFlagsSeen ==
  /\ calls = 1
  /\ error = "none"
  /\ pc \in AfterHydrology
  /\ \E i, j \in 1 .. Len(rivers) :
       /\ i < j
       /\ Range(rivers[i].path) \cap Range(rivers[j].path) # {}
       /\ rivers[i].path # rivers[j].path

\* frequency in octave k of the loop, counted from 0
RECURSIVE Frequency(_)
Frequency(k) == IF k = 0 THEN Unit ELSE Frequency(k - 1) * Lacunarity

\* the coordinates handed to noise2d for the tile (x, y): the samples of the
\* octaves, the two inputs of the warp and the warped sample
NoiseCoordinates(x, y) ==
  UNION {{(x * Frequency(k)) \div Scale, (y * Frequency(k)) \div Scale} :
           k \in 0 .. args.octaves - 1}
  \cup {x * 300, y * 300, x * 300 + 100 * Unit, y * 300 + 100 * Unit}
  \cup Range(WarpSample(args, x, y))

\* C26: for every coordinate passed to the noise function during
\* generation, the negative ones of the domain warp near column 0 and row 0
\* included, the lattice cell is floor(x) mod 256 and the fractional offset
\* x - floor(x) fed to the fade curve lies in [0, 1)
LatticeCellIsFloor ==
  pc = "rivers"
    => \A y \in Ys(args), x \in Xs(args) :
         \A q \in NoiseCoordinates(x, y) :
           /\ LatticeCell(q) = (q \div Unit) % 256
           /\ 0 <= Fraction(q) /\ Fraction(q) < Unit

\* C27: along every traced path the elevation strictly decreases from each
\* tile to the next; hence the visited set never excludes a neighbour that
\* would otherwise be chosen (the choice among all neighbours, visited or
\* not, is the tile the path takes, and the trace ends where that choice is
\* empty), and a path never returns to a tile
PathsDescend ==
  RiversOfOneCall
    => \A i \in 1 .. Len(traced) :
         LET path == traced[i].path
         IN /\ \A k \in 1 .. Len(path) - 1 :
                 /\ TileAt(path[k + 1]).elevation < TileAt(path[k]).elevation
                 /\ Candidates(path[k], {}) # {}
                 /\ path[k + 1] = FirstLowest(path[k], {})
            /\ ~TileAt(path[Len(path)]).water
                 => Candidates(path[Len(path)], {}) = {}
            /\ \A j, k \in 1 .. Len(path) : path[j] = path[k] => j = k

\* a trace of three tiles or more has left a source that has a neighbour of
\* its own elevation
PathsDescendSeen ==
  /\ pc = "traced"
  /\ \E i \in 1 .. Len(traced) :
       LET path == traced[i].path
       IN /\ Len(path) >= 3
          /\ \E n \in Range(_get_neighbors(args, path[1][1], path[1][2])) :
               TileAt(n).elevation = TileAt(path[1]).elevation

\* max(0, 1 - d / 30) for the Manhattan distance d from c to the nearest tile
\* of W, 0 when W is empty
TermOfNearest(c, W) ==
  LET D == {Abs(w[1] - c[1]) + Abs(w[2] - c[2]) : w \in W}
  IN IF D = {} THEN 0
     ELSE Max(0, Unit - ((CHOOSE d \in D : \A e \in D : d <= e) * Unit) \div 30)

\* C28: the bounded window loses nothing: for every tile the
\* water-proximity term computed from the radius-40 window equals
\* max(0, 1 - d / 30) for the Manhattan distance d to the nearest water or
\* river tile of the whole grid, and 0 when the grid has none
WindowLosesNothing ==
  MoistureDone
    => LET W == WetTiles
       IN \A c \in Coords :
            LET local == climate[c[2]][c[1]]
                term == TermOfNearest(c, W)
            IN /\ WaterMoisture(local.water_distance) = term
               /\ TileAt(c).moisture
                    = Clamp(term + (TileAt(c).elevation * 3) \div 10 - local.rain_shadow)

\* the terms have been computed on a grid that has water or rivers, for a
\* tile with none of them in its window
WindowLosesNothingSeen ==
  /\ MoistureDone
  /\ WetTiles # {}
  /\ \E c \in Coords :
       /\ WindowDistances(c, WetTiles) = {}
       /\ climate[c[2]][c[1]].water_distance = 40

\* the rest of a path from position k on
Rest(path, k) == SubSeq(path, k, Len(path))

\* C29: if the paths of two kept rivers contain a common tile, the two paths
\* are identical from that tile onward, with the same mouth: overlapping
\* rivers merge and never cross and part again
SharedTileSharedRest ==
  \A i, j \in 1 .. Len(rivers) :
    LET p == rivers[i].path
        q == rivers[j].path
    IN \A k \in 1 .. Len(p) :
         \A l \in {m \in 1 .. Len(q) : q[m] = p[k]} :
           /\ Rest(p, k) = Rest(q, l)
           /\ rivers[i].mouth = rivers[j].mouth

\* two rivers from different sources have met and share the rest of their
\* paths
SharedTileSharedRestSeen ==
  \E i, j \in 1 .. Len(rivers) :
    /\ rivers[i].source \notin Range(rivers[j].path)
    /\ rivers[j].source \notin Range(rivers[i].path)
    /\ Range(rivers[i].path) \cap Range(rivers[j].path) # {}
    /\ pc = "returned"

\* no rule of the table contains the values: _determine_biome falls through
\* to its default
NoRuleContains(elevation, moisture) ==
  \A b \in Range(StatedOrder) : ~Contains(b, elevation, moisture)

\* moistures at and next to the bounds of the moisture ranges
MoistureProbes ==
  {Clamp(MoistureBounds[i] + d) : i \in 1 .. Len(MoistureBounds), d \in -1 .. 1}

\* C30: for elevation and moisture in [0, 1] the grassland default of
\* _determine_biome is reached exactly when the elevation is 1.0, a value
\* the clamp of the Elevation stage produces; every tile with elevation in
\* [0.78, 1.0) is mountain, and every pair with elevation below 1.0 matches
\* some rule
DefaultOnlyAtOne ==
  pc \in {"serialize", "assigned"}
    => \A y \in Ys(args), x \in Xs(args) :
         LET t == tiles[y][x]
         IN /\ NoRuleContains(t.elevation, t.moisture) <=> t.elevation = Unit
            /\ t.elevation = Unit => t.biome = "grassland"
            /\ (7800 <= t.elevation /\ t.elevation < Unit) => t.biome = "mountain"
            /\ \A m \in MoistureProbes :
                 NoRuleContains(t.elevation, m) <=> t.elevation = Unit

\* a generated grid holds a tile the clamp has set to 1.0, which got the
\* default, next to a mountain tile just below 1.0
DefaultOnlyAtOneSeen ==
  /\ pc = "serialize"
  /\ scenario = NoScenario
  /\ \E y \in Ys(args), x \in Xs(args) :
       /\ tiles[y][x].elevation = Unit
       /\ tiles[y][x].biome = "grassland"
  /\ \E y \in Ys(args), x \in Xs(args) :
       /\ tiles[y][x].elevation >= 9900 /\ tiles[y][x].elevation < Unit
       /\ tiles[y][x].biome = "mountain"

\* on a grid of marks the elevation one step below 1.0 is mountain at every
\* moisture and the elevation 1.0 gets the default
DefaultAtMarksSeen ==
  /\ pc = "assigned"
  /\ \E y \in Ys(args), x \in Xs(args) :
       tiles[y][x].elevation = Unit - 1 /\ tiles[y][x].biome = "mountain"
  /\ \E y \in Ys(args), x \in Xs(args) :
       tiles[y][x].elevation = Unit /\ tiles[y][x].biome = "grassland"

====
